---- MODULE Spec2Model ----
(***************************************************************************)
(* Ingestion / retrieval core of the RAG backend (backend/documents.py,    *)
(* backend/rag.py, backend/database.py, backend/main.py), the answer path  *)
(* of backend/llm.py, and the SessionManager of the desktop client         *)
(* (frontend/session_manager.py).                                          *)
(*                                                                         *)
(* Strings the code transforms character by character (user ids,           *)
(* collection names) are sequences of one-character strings.  A UUID is    *)
(* shortened from 32 hexadecimal digits to the length of TestUuidHex; its  *)
(* canonical text keeps its hyphen after the first digit.                  *)
(***************************************************************************)
EXTENDS Integers, Sequences, FiniteSets, TLC

\* ------------------------------------------------------------------ bounds
NumRuns == 2
MaxChunks == 2
MaxDeletes == 1
NumCallers == 2

Runs == 1..NumRuns
Callers == 1..NumCallers

\* ------------------------------------------------------- strings and UUIDs
HexLower == {"0", "1", "2", "3", "a", "b", "f"}

Lower(c) == IF c = "A" THEN "a" ELSE IF c = "B" THEN "b" ELSE c

RECURSIVE Replace(_, _, _)
\* str.replace(old, new) for one-character old and new
Replace(s, old, new) ==
  IF s = <<>> THEN <<>>
  ELSE <<IF Head(s) = old THEN new ELSE Head(s)>> \o Replace(Tail(s), old, new)

RECURSIVE Remove(_, _)
\* str.replace(old, '')
Remove(s, old) ==
  IF s = <<>> THEN <<>>
  ELSE (IF Head(s) = old THEN <<>> ELSE <<Head(s)>>) \o Remove(Tail(s), old)

\* the nil-but-one UUID of the test user, as hexadecimal digits
TestUuidHex == <<"0", "1">>

\* uuid.UUID(text): hyphens are dropped, the digit count is checked, the
\* digits are read case-insensitively; <<>> stands for ValueError
UuidParse(s) ==
  LET h == Remove(s, "-")
      l == [k \in DOMAIN h |-> Lower(h[k])]
  IN IF Len(h) = Len(TestUuidHex) /\ \A k \in DOMAIN l : l[k] \in HexLower
     THEN l ELSE <<>>

\* str(uuid): lower-case digits with the hyphen put back
UuidStr(h) == <<Head(h), "-">> \o Tail(h)

\* uuid.uuid4() drawn by run r: a value no other draw returns
DigitOf == <<"1", "2", "3">>
Uuid4(r) == <<"f", DigitOf[r]>>

TestUser == <<"t", "e", "s", "t", "_", "u", "s", "e", "r">>
UserA == <<"a", "-", "b">>
UserTestUuid == UuidStr(TestUuidHex)

UserTestUuidUnderscored == Replace(UserTestUuid, "-", "_")

\* user ids the uploads and deletions that run side by side are called with
UserIds == {TestUser, UserTestUuid}

\* user ids queries, and the upload next to them, are called with
QueryUserIds == UserIds \cup {UserTestUuidUnderscored, UserA}

Filenames == {"a.txt", "b.txt"}

\* -------------------------------------------------------------- the state
VARIABLES
  files,        \* upload directory: filename -> bytes last written there
  documents,    \* Document rows: id -> [filename, user_id, status, chunk_count]
  chunks,       \* committed DocumentChunk rows
  collections,  \* names of the collections the vector store holds
  points,       \* vector points: [coll, id, document_id, chunk_index, content]
                \* and user_id, the user id store_embedding was called with
  run,          \* the upload requests, one record per request
  del,          \* the delete request in flight
  ret,          \* outcome of the last retrieve_context call
  ens,          \* the direct callers of create_user_collection
  srch,         \* the last direct call of a VectorStore method
  asq,          \* the assess_context_quality call: its arguments and result
  qry,          \* the query_documents generator being consumed
  chk,          \* the chunk_text call: its arguments, its loop and its result
  sm            \* the SessionManager of the desktop client and its data_dir

\* the variables of the direct store calls and of the answer path
queryVars == <<srch, asq, qry>>

\* the variables of the units called on their own
unitVars == <<chk, sm>>

vars == <<files, documents, chunks, collections, points, run, del, ret, ens,
          srch, asq, qry, chk, sm>>

NullId == 0
NoBytes == [src |-> NullId, n |-> 0]

\* ------------------------------------------------------- the vector store
UserPrefix == <<"u", "s", "e", "r", "_">>

\* f"user_{user_id.replace('-', '_')}"
collection_name(user_id) == UserPrefix \o Replace(user_id, "-", "_")

\* get_collection succeeds, or create_collection makes the collection
EnsureCollection(colls, name) == colls \cup {name}

\* client.upsert: the point replaces a point of the same id in the collection
Upsert(pts, p) ==
  {q \in pts : ~(q.coll = p.coll /\ q.id = p.id)} \cup {p}

\* a delete whose filter reaches into every collection
DeleteByFilterEverywhere(pts, name, document_id) ==
  {q \in pts : q.document_id # document_id}

\* client.delete with a filter on payload.document_id
DeleteByFilter(pts, name, document_id) ==
  {q \in pts : ~(q.coll = name /\ q.document_id = document_id)}

\* ------------------------------------------------------------ the database
Document(filename, user_id) ==
  [filename |-> filename, user_id |-> user_id,
   processing_status |-> "processing", chunk_count |-> 0]

DocumentChunk(document_id, i, content, embedding_id) ==
  [document_id |-> document_id, chunk_index |-> i,
   content |-> content, embedding_id |-> embedding_id]

\* db.delete(document) with the relationship as declared: the rows of
\* document.chunks are kept and their foreign key is set to NULL
DeleteDocumentRow(chs, document_id) ==
  {IF c.document_id = document_id THEN [c EXCEPT !.document_id = NullId] ELSE c
     : c \in chs}

\* ---------------------------------------------------- process_document
IdleRun ==
  [pc |-> "idle", filename |-> "", vector_user_id |-> <<>>,
   document |-> NullId, text |-> NoBytes, i |-> 0, pending |-> {},
   recovery |-> "none"]

\* what a request keeps once process_document has returned or raised
Finished(rec, pc, recovery) ==
  [IdleRun EXCEPT !.pc = pc, !.document = rec.document, !.recovery = recovery]

\* lines 102-149: the user row's id and the user id used for the vectors
db_user_id(user_id, r) ==
  IF user_id = TestUser THEN TestUuidHex
  ELSE IF UuidParse(user_id) # <<>> THEN UuidParse(user_id) ELSE Uuid4(r)

vector_user_id(user_id, r) ==
  IF user_id = TestUser THEN TestUser ELSE UuidStr(db_user_id(user_id, r))

CHUNK_SIZE == 512
MinChunkLength == 50
PreviewLength == 200
EllipsisLength == 3

\* chunk i of the text of the extracted bytes: which text it is cut from, its
\* index and its length; a chunk before the last fills the window, the last
\* one is the shortest that line 84 keeps
ChunkContent(text, i) ==
  [src |-> text.src, idx |-> i,
   len |-> IF i + 1 < text.n THEN CHUNK_SIZE ELSE MinChunkLength + 1,
   truncated |-> FALSE]

\* the whole chunk as its own preview
PreviewWhole(content) == content

\* chunk[:200] + "..." if len(chunk) > 200 else chunk
Preview(content) ==
  IF content.len > PreviewLength
  THEN [content EXCEPT !.len = PreviewLength + EllipsisLength,
                       !.truncated = TRUE]
  ELSE content

\* str(uuid.uuid4()) drawn for chunk i of run r
EmbeddingId(r, i) == <<r, i>>

\* requests are numbered in the order in which they arrive
Arrives(r) == run[r].pc = "idle" /\ \A q \in Runs : q < r => run[q].pc # "idle"

\* upload_document up to documents.py line 164: the bytes of request r (n
\* chunks long) are written to UPLOAD_DIR/filename and the Document row of
\* the resolved user is committed with status processing (User rows are read
\* by nothing else in the pipeline and are not kept in the state)
Upload(r, f, u, n) ==
  /\ Arrives(r)
  /\ files' = [files EXCEPT ![f] = [src |-> r, n |-> n]]
  /\ documents' = [d \in DOMAIN documents \cup {r} |->
                     IF d = r THEN Document(f, db_user_id(u, r))
                     ELSE documents[d]]
  /\ run' = [run EXCEPT ![r] = [@ EXCEPT !.pc = "created", !.filename = f,
                                         !.vector_user_id = vector_user_id(u, r),
                                         !.document = r]]
  /\ UNCHANGED <<chunks, collections, points, del, ret, ens, queryVars, unitVars>>

\* the same with a commit of lines 114-163 raising: the file is written, no
\* Document row exists, the handler finds none to mark and re-raises
UploadFails(r, f, n) ==
  /\ Arrives(r)
  /\ files' = [files EXCEPT ![f] = [src |-> r, n |-> n]]
  /\ run' = [run EXCEPT ![r] = Finished(@, "raised", "no_document")]
  /\ UNCHANGED <<documents, chunks, collections, points, del, ret, ens, queryVars, unitVars>>

\* lines 168-178: extract_text reads the file at UPLOAD_DIR/filename, then
\* chunk_text and generate_embeddings; ok = FALSE is any of them raising
ExtractChunkEmbed(r, ok) ==
  /\ run[r].pc = "created"
  /\ run' = [run EXCEPT ![r] =
               IF ok THEN [@ EXCEPT !.pc = "storing", !.filename = "",
                                    !.text = files[run[r].filename], !.i = 0]
               ELSE [@ EXCEPT !.pc = "except", !.filename = ""]]
  /\ UNCHANGED <<files, documents, chunks, collections, points, del, ret, ens, queryVars, unitVars>>

\* lines 184-211, one iteration: store_embedding (create_user_collection,
\* upsert), then db.add of the chunk row.  fault names the store call that
\* raises, if any
StoreChunk(r, fault) ==
  /\ run[r].pc = "storing"
  /\ run[r].i < run[r].text.n
  /\ LET i == run[r].i
         name == collection_name(run[r].vector_user_id)
         content == ChunkContent(run[r].text, i)
         point == [coll |-> name, id |-> EmbeddingId(r, i),
                   user_id |-> run[r].vector_user_id,
                   document_id |-> run[r].document, chunk_index |-> i,
                   content |-> Preview(content)]
         row == DocumentChunk(run[r].document, i, content, EmbeddingId(r, i))
     IN /\ collections' = IF fault = "ensure" THEN collections
                          ELSE EnsureCollection(collections, name)
        /\ points' = IF fault = "none" THEN Upsert(points, point) ELSE points
        /\ run' = [run EXCEPT ![r] =
                     IF fault = "none"
                     THEN [@ EXCEPT !.i = i + 1, !.pending = @ \cup {row}]
                     ELSE [@ EXCEPT !.pc = "except"]]
  /\ UNCHANGED <<files, documents, chunks, del, ret, ens, queryVars, unitVars>>

\* the completed status written without line 215
CompletedWithoutCount(doc, n) ==
  [doc EXCEPT !.processing_status = "completed"]

\* lines 214-215
Completed(doc, n) ==
  [doc EXCEPT !.processing_status = "completed", !.chunk_count = n]

\* lines 213-219: status, chunk_count and the pending chunk rows are
\* committed together; the commit raises when ok = FALSE or when the
\* Document row is gone
CommitDocument(r, ok) ==
  /\ run[r].pc = "storing"
  /\ run[r].i = run[r].text.n
  /\ IF ok /\ run[r].document \in DOMAIN documents
     THEN /\ documents' = [documents EXCEPT ![run[r].document] =
                             Completed(@, run[r].text.n)]
          /\ chunks' = chunks \cup run[r].pending
          /\ run' = [run EXCEPT ![r] = Finished(@, "returned", "none")]
     ELSE /\ run' = [run EXCEPT ![r] = [@ EXCEPT !.pc = "except"]]
          /\ UNCHANGED <<documents, chunks>>
  /\ UNCHANGED <<files, collections, points, del, ret, ens, queryVars, unitVars>>

\* the status update made on the rolled-back session: it is lost
MarkFailedLost(docs, d) == docs

\* lines 232-235: the update of the fresh session status_db
MarkFailed(docs, d) ==
  [docs EXCEPT ![d] = [@ EXCEPT !.processing_status = "failed"]]

\* lines 221-245: db.rollback(), the status update through a session of its
\* own (its errors are swallowed), then raise e
ExceptHandler(r, ok) ==
  /\ run[r].pc = "except"
  /\ LET d == run[r].document
     IN IF d \in DOMAIN documents /\ ok
        THEN /\ documents' = MarkFailed(documents, d)
             /\ run' = [run EXCEPT ![r] = Finished(@, "raised", "marked")]
        ELSE /\ UNCHANGED documents
             /\ run' = [run EXCEPT ![r] =
                          Finished(@, "raised",
                                   IF d \in DOMAIN documents
                                   THEN "update_failed" ELSE "no_document")]
  /\ UNCHANGED <<files, chunks, collections, points, del, ret, ens, queryVars, unitVars>>

\* -------------------------------------------------- delete_user_document
IdleDelete ==
  [pc |-> "idle", document_id |-> NullId, user_id |-> <<>>,
   user_uuid |-> <<>>, result |-> "none", calls |-> 0]

\* what the request keeps once delete_user_document has returned
Returned(document_id, result) ==
  [IdleDelete EXCEPT !.document_id = document_id, !.result = result,
                     !.calls = del.calls]

\* lines 294-300: <<>> stands for the early return False
user_uuid(user_id) ==
  IF UuidParse(user_id) # <<>> THEN UuidParse(user_id)
  ELSE IF user_id = TestUser THEN TestUuidHex ELSE <<>>

\* lines 289-309: the document is looked up by id and owner
DeleteFind(d, u) ==
  /\ del.pc = "idle"
  /\ del.calls < MaxDeletes
  /\ LET uu == user_uuid(u)
         found == /\ uu # <<>>
                  /\ d \in DOMAIN documents
                  /\ documents[d].user_id = uu
     IN del' = IF found
               THEN [pc |-> "found", document_id |-> d, user_id |-> u,
                     user_uuid |-> uu, result |-> "none",
                     calls |-> del.calls + 1]
               ELSE [Returned(NullId, "false") EXCEPT !.calls = del.calls + 1]
  /\ UNCHANGED <<files, documents, chunks, collections, points, run, ret, ens, queryVars, unitVars>>

\* line 314
actual_user_id(user_id, uu) ==
  IF user_id = TestUser THEN TestUser ELSE UuidStr(uu)

\* lines 311-315 (and 322-325 when the store raises)
DeleteVectors(ok) ==
  /\ del.pc = "found"
  /\ LET name == collection_name(actual_user_id(del.user_id, del.user_uuid))
     IN IF ok
        THEN /\ collections' = EnsureCollection(collections, name)
             /\ points' = DeleteByFilter(points, name, del.document_id)
             /\ del' = [del EXCEPT !.pc = "vectors_deleted", !.user_id = <<>>,
                                   !.user_uuid = <<>>]
        ELSE /\ UNCHANGED <<collections, points>>
             /\ del' = Returned(NullId, "false")
  /\ UNCHANGED <<files, documents, chunks, run, ret, ens, queryVars, unitVars>>

\* lines 317-325: db.delete(document), db.commit(), return True; a commit
\* that raises is rolled back and False is returned
DeleteCommit(ok) ==
  /\ del.pc = "vectors_deleted"
  /\ IF ok /\ del.document_id \in DOMAIN documents
     THEN /\ documents' = [d \in DOMAIN documents \ {del.document_id} |->
                             documents[d]]
          /\ chunks' = DeleteDocumentRow(chunks, del.document_id)
          /\ del' = Returned(del.document_id, "true")
     ELSE /\ UNCHANGED <<documents, chunks>>
          /\ del' = Returned(NullId, "false")
  /\ UNCHANGED <<files, collections, points, run, ret, ens, queryVars, unitVars>>

\* ------------------------------------------------------ retrieve_context
TopK == 5

\* hit.score of client.search for the query: the cosine similarity of the
\* stored vector, a fixed function of the stored chunk
Score(p) == 90 - 10 * p.content.src - p.chunk_index

RECURSIVE Ranked(_)
\* the points of a set by descending score
Ranked(ps) ==
  IF ps = {} THEN <<>>
  ELSE LET best == CHOOSE p \in ps : \A q \in ps : Score(q) <= Score(p)
       IN <<best>> \o Ranked(ps \ {best})

\* a search that ignores its limit
FirstAll(seq, k) == seq

\* the first k entries: limit=top_k
FirstK(seq, k) == SubSeq(seq, 1, IF Len(seq) < k THEN Len(seq) ELSE k)

\* client.search(collection_name, query_vector, limit=top_k)
Search(pts, name, top_k) == FirstK(Ranked({p \in pts : p.coll = name}), top_k)

RECURSIVE Filtered(_, _)
\* [hit for hit in search_result if hit.score >= score_threshold]
Filtered(hits, score_threshold) ==
  IF hits = <<>> THEN <<>>
  ELSE (IF Score(Head(hits)) >= score_threshold THEN <<Head(hits)>> ELSE <<>>)
       \o Filtered(Tail(hits), score_threshold)

\* lines 83-90
Hit(p) ==
  [id |-> p.id, score |-> Score(p),
   chunk_metadata |-> [document_id |-> p.document_id,
                       chunk_index |-> p.chunk_index, content |-> p.content]]

\* search_similar after create_user_collection, lines 62-95
search_similar(pts, user_id, top_k, score_threshold) ==
  LET hits == Filtered(Search(pts, collection_name(user_id), top_k),
                       score_threshold)
  IN [k \in DOMAIN hits |-> Hit(hits[k])]

\* db.query(DocumentChunk).filter(embedding_id == chunk_id).first()
ChunkRows(chs, chunk_id) == {c \in chs : c.embedding_id = chunk_id}

\* lines 166-173
Source(docs, chunk, hit) ==
  [document_id |-> chunk.document_id,
   document_name |-> IF chunk.document_id \in DOMAIN docs
                     THEN docs[chunk.document_id].filename
                     ELSE "Unknown Document",
   chunk_index |-> chunk.chunk_index, score |-> hit.score,
   preview |-> Preview(chunk.content), source_type |-> "local_document"]

RECURSIVE Hydrated(_, _, _)
\* lines 151-176: the hits whose chunk row is found, as <<chunk, hit>> pairs
Hydrated(chs, docs, hits) ==
  IF hits = <<>> THEN <<>>
  ELSE LET rows == ChunkRows(chs, Head(hits).id)
       IN (IF rows = {} THEN <<>>
           ELSE <<<<CHOOSE c \in rows : TRUE, Head(hits)>>>>)
          \o Hydrated(chs, docs, Tail(hits))

MAX_CONTEXT_LENGTH == 4000
SeparatorLength == 2

\* A string built from chunk contents is a sequence of pieces: the first n
\* characters of a chunk content, of the separator or of the ellipsis.  The
\* empty string is the empty sequence.
NoContent == [src |-> NullId, idx |-> 0, len |-> 0, truncated |-> FALSE]

Piece(kind, content, n) == [kind |-> kind, of |-> content, n |-> n]

\* chunk.content as a string
Text(content) ==
  IF content.len = 0 THEN <<>> ELSE <<Piece("text", content, content.len)>>

\* "\n\n"
Separator == <<Piece("sep", NoContent, SeparatorLength)>>

\* "..."
Ellipsis == <<Piece("ellipsis", NoContent, EllipsisLength)>>

RECURSIVE StrLen(_)
\* len(s)
StrLen(s) == IF s = <<>> THEN 0 ELSE Head(s).n + StrLen(Tail(s))

RECURSIVE Join(_)
\* "\n\n".join(context_parts)
Join(parts) ==
  IF parts = <<>> THEN <<>>
  ELSE IF Len(parts) = 1 THEN Text(Head(parts))
  ELSE Text(Head(parts)) \o Separator \o Join(Tail(parts))

RECURSIVE Take(_, _)
\* s[:k]
Take(s, k) ==
  IF s = <<>> \/ k <= 0 THEN <<>>
  ELSE IF Head(s).n <= k THEN <<Head(s)>> \o Take(Tail(s), k - Head(s).n)
  ELSE <<[Head(s) EXCEPT !.n = k]>>

\* the joined contents returned whatever their length
full_context_uncut(context_parts) == Join(context_parts)

\* lines 179-182
full_context(context_parts) ==
  LET joined == Join(context_parts)
  IN IF StrLen(joined) > MAX_CONTEXT_LENGTH
     THEN Take(joined, MAX_CONTEXT_LENGTH) \o Ellipsis
     ELSE joined

EmptyResult == [context |-> <<>>, sources |-> <<>>, has_context |-> FALSE]

\* lines 135-191
retrieve_result(chs, docs, similar_chunks) ==
  IF similar_chunks = <<>> THEN EmptyResult
  ELSE LET found == Hydrated(chs, docs, similar_chunks)
       IN [context |-> full_context([k \in DOMAIN found |->
                                       found[k][1].content]),
           sources |-> [k \in DOMAIN found |->
                          Source(docs, found[k][1], found[k][2])],
           has_context |-> Len(found) > 0]

NoRetrieve ==
  [outcome |-> "none", user_id |-> <<>>, fault |-> "none",
   similar_chunks |-> <<>>, result |-> EmptyResult]

\* retrieve_context(query, user_id): search_similar first calls
\* create_user_collection (line 60, before the try of line 66), then
\* searches inside the try.  fault names the store call that raises, if any
Retrieve(u, fault) ==
  /\ collections' = IF fault = "ensure" THEN collections
                    ELSE EnsureCollection(collections, collection_name(u))
  /\ LET similar == IF fault = "none"
                    THEN search_similar(points, u, TopK, 0) ELSE <<>>
     IN ret' = IF fault = "ensure"
               THEN [NoRetrieve EXCEPT !.outcome = "raised", !.user_id = u,
                                       !.fault = fault]
               ELSE [outcome |-> "returned", user_id |-> u, fault |-> fault,
                     similar_chunks |-> similar,
                     result |-> retrieve_result(chunks, documents, similar)]
  /\ UNCHANGED <<files, documents, chunks, points, run, del, ens, queryVars, unitVars>>

\* ------------------------------------- create_user_collection, called directly
IdleCaller ==
  [pc |-> "idle", user_id |-> <<>>, result |-> <<>>, created |-> FALSE]

\* lines 21-27: client.get_collection(collection_name); when it raises, the
\* bare except goes on to create the collection
GetCollection(c, u) ==
  /\ ens[c].pc = "idle"
  /\ ens' = [ens EXCEPT ![c] =
               IF collection_name(u) \in collections
               THEN [@ EXCEPT !.pc = "returned", !.user_id = u,
                              !.result = collection_name(u)]
               ELSE [@ EXCEPT !.pc = "creating", !.user_id = u]]
  /\ UNCHANGED <<files, documents, chunks, collections, points, run, del, ret, queryVars, unitVars>>

\* lines 28-37: client.create_collection, which the store refuses for a name
\* it already holds; the refusal is raised to the caller
CreateCollection(c) ==
  /\ ens[c].pc = "creating"
  /\ LET name == collection_name(ens[c].user_id)
     IN IF name \in collections
        THEN /\ ens' = [ens EXCEPT ![c] = [@ EXCEPT !.pc = "raised"]]
             /\ UNCHANGED collections
        ELSE /\ ens' = [ens EXCEPT ![c] = [@ EXCEPT !.pc = "returned",
                                                    !.result = name,
                                                    !.created = TRUE]]
             /\ collections' = collections \cup {name}
  /\ UNCHANGED <<files, documents, chunks, points, run, del, ret, queryVars, unitVars>>

\* ------------------------------------------- VectorStore, called directly
NoCall ==
  [op |-> "none", outcome |-> "none", fault |-> "none", user_id |-> <<>>,
   point_id |-> <<>>, document_id |-> NullId, top_k |-> 0,
   score_threshold |-> 0, result |-> <<>>, matched |-> 0]

\* the metadata dict of documents.py lines 195-199
Metadata(document_id, i) ==
  [document_id |-> document_id, chunk_index |-> i,
   content |-> Preview(ChunkContent([src |-> document_id, n |-> i + 1], i))]

\* PointStruct(id, vector, payload) as kept by the collection name
PointStruct(name, point_id, metadata, user_id) ==
  [coll |-> name, id |-> point_id, user_id |-> user_id,
   document_id |-> metadata.document_id,
   chunk_index |-> metadata.chunk_index, content |-> metadata.content]

\* store_embedding(point_id, embedding, metadata, user_id), lines 39-56
StoreEmbedding(point_id, metadata, u, fault) ==
  /\ collections' = IF fault = "ensure" THEN collections
                    ELSE EnsureCollection(collections, collection_name(u))
  /\ points' = IF fault = "none"
               THEN Upsert(points, PointStruct(collection_name(u), point_id,
                                               metadata, u))
               ELSE points
  /\ srch' = [NoCall EXCEPT !.op = "store_embedding",
                            !.outcome = IF fault = "none" THEN "returned"
                                        ELSE "raised",
                            !.fault = fault, !.user_id = u,
                            !.point_id = point_id,
                            !.document_id = metadata.document_id]
  /\ UNCHANGED <<files, documents, chunks, run, del, ret, ens, asq, qry, unitVars>>

\* search_similar(query_embedding, user_id, top_k, score_threshold), lines
\* 58-95: a failing search is caught and gives [], a failing
\* create_user_collection is raised
SearchSimilar(u, top_k, score_threshold, fault) ==
  /\ collections' = IF fault = "ensure" THEN collections
                    ELSE EnsureCollection(collections, collection_name(u))
  /\ srch' = [NoCall EXCEPT !.op = "search_similar",
                            !.outcome = IF fault = "ensure" THEN "raised"
                                        ELSE "returned",
                            !.fault = fault, !.user_id = u, !.top_k = top_k,
                            !.score_threshold = score_threshold,
                            !.result = IF fault = "none"
                                       THEN search_similar(points, u, top_k,
                                                           score_threshold)
                                       ELSE <<>>]
  /\ UNCHANGED <<files, documents, chunks, points, run, del, ret, ens, asq, qry, unitVars>>

\* delete_document_embeddings(document_id, user_id), lines 97-113; matched
\* counts the points the filter selected
DeleteDocumentEmbeddings(document_id, u, fault) ==
  /\ collections' = IF fault = "ensure" THEN collections
                    ELSE EnsureCollection(collections, collection_name(u))
  /\ points' = IF fault = "none"
               THEN DeleteByFilter(points, collection_name(u), document_id)
               ELSE points
  /\ srch' = [NoCall EXCEPT !.op = "delete_document_embeddings",
                            !.outcome = IF fault = "none" THEN "returned"
                                        ELSE "raised",
                            !.fault = fault, !.user_id = u,
                            !.document_id = document_id,
                            !.matched =
                              IF fault = "none"
                              THEN Cardinality(points)
                                     - Cardinality(DeleteByFilter(points,
                                         collection_name(u), document_id))
                              ELSE 0]
  /\ UNCHANGED <<files, documents, chunks, run, del, ret, ens, asq, qry, unitVars>>

\* ------------------------------------------------- assess_context_quality
\* The context and the query are run-length strings: a sequence of runs
\* [c, n], n copies of the character c, no two adjacent runs of one
\* character.  " " stands for every whitespace character.
MinContextLength == 50

Run(c, n) == [c |-> c, n |-> n]

RECURSIVE RunLen(_)
\* len(s)
RunLen(s) == IF s = <<>> THEN 0 ELSE Head(s).n + RunLen(Tail(s))

Reverse(s) == [k \in 1..Len(s) |-> s[Len(s) + 1 - k]]

RECURSIVE StripLeft(_)
StripLeft(s) ==
  IF s # <<>> /\ Head(s).c = " " THEN StripLeft(Tail(s)) ELSE s

\* s.strip()
Strip(s) == Reverse(StripLeft(Reverse(StripLeft(s))))

RECURSIVE Merge(_)
\* adjacent runs of one character are one run
Merge(s) ==
  IF Len(s) <= 1 THEN s
  ELSE IF s[1].c = s[2].c
       THEN Merge(<<Run(s[1].c, s[1].n + s[2].n)>> \o Tail(Tail(s)))
       ELSE <<s[1]>> \o Merge(Tail(s))

\* s.lower()
LowerText(s) == Merge([k \in DOMAIN s |-> Run(Lower(s[k].c), s[k].n)])

RECURSIVE SplitWords(_, _)
SplitWords(s, word) ==
  IF s = <<>> THEN (IF word = <<>> THEN {} ELSE {word})
  ELSE IF Head(s).c = " "
       THEN (IF word = <<>> THEN {} ELSE {word}) \cup SplitWords(Tail(s), <<>>)
       ELSE SplitWords(Tail(s), Append(word, Head(s)))

\* set(s.split())
Split(s) == SplitWords(s, <<>>)

\* ten times a required overlap that is not raised to 1
required_overlap_unfloored(n) == 3 * n

\* line 207, max(1, len(query_words) * 0.3), in tenths: for the integer
\* overlap the comparison of line 208 is exact in tenths, and the rounding
\* of n * 0.3 to a double never carries it past 3n/10
required_overlap(n) == IF 3 * n > 10 THEN 3 * n ELSE 10

\* an assessment by the length test alone
assess_length_only(context, query) ==
  RunLen(Strip(context)) >= MinContextLength

\* lines 196-212
assess_context_quality(context, query) ==
  IF RunLen(Strip(context)) < MinContextLength THEN FALSE
  ELSE LET query_words == Split(LowerText(query))
           context_words == Split(LowerText(context))
           overlap == Cardinality(query_words \cap context_words)
       IN 10 * overlap >= required_overlap(Cardinality(query_words))

NoAssess == [context |-> <<>>, query |-> <<>>, result |-> "none"]

\* one call of assess_context_quality on the arguments drawn
Assess ==
  /\ asq.result = "none"
  /\ asq' = [asq EXCEPT !.result =
               IF assess_context_quality(asq.context, asq.query)
               THEN "true" ELSE "false"]
  /\ UNCHANGED <<files, documents, chunks, collections, points, run, del,
                 ret, ens, srch, qry, unitVars>>

\* -------------------------------------------------------- query_documents
MaxFragments == 2

NoPrompt ==
  [template |-> "none",
   context |-> [local |-> <<>>, marker |-> FALSE, web |-> FALSE],
   web_note |-> FALSE]

IdleQuery ==
  [pc |-> "idle", user_id |-> <<>>, stream |-> FALSE, has_context |-> FALSE,
   local |-> <<>>, quality |-> "none", web_available |-> "none",
   web_search |-> "none", prompt |-> NoPrompt, llm_available |-> "none",
   generate |-> FALSE, fragments |-> <<>>, handle |-> "none",
   failure |-> "none"]

\* a fallback wanted whatever was retrieved
needs_web_search_always(has_context, quality_good) == TRUE

\* line 131; quality_good is read only when has_context holds
needs_web_search(has_context, quality_good) ==
  ~has_context \/ ~quality_good

\* a failed search handing its error text back as web context
web_context_or_error(outcome) == outcome \in {"results", "failed"}

\* WebSearchClient.search, lines 54-74: is the returned string non-empty?
\* A failure inside the try, and a response without results, give ""
web_context(outcome) == outcome = "results"

\* line 140: the local context, the marker line and the web results
AnswerContext(local, web) ==
  [local |-> local, marker |-> web /\ local # <<>>, web |-> web]

\* create_prompt, lines 86-118
create_prompt(context, has_web_context) ==
  [template |-> IF context.local # <<>> \/ context.web
                THEN "context" ELSE "no_context",
   context |-> context, web_note |-> has_web_context]

\* lines 123-143, run by the first pull of the consumer.  fault names the
\* store call of retrieve_context that raises, enough is the word overlap
\* test of assess_context_quality for the query text, available is
\* web_client.is_available() and outcome what the web search does
QueryPrompt(u, stream, fault, enough, available, outcome) ==
  /\ qry.pc = "idle"
  /\ collections' = IF fault = "ensure" THEN collections
                    ELSE EnsureCollection(collections, collection_name(u))
  /\ LET similar == IF fault = "none"
                    THEN search_similar(points, u, TopK, 0) ELSE <<>>
         context_data == retrieve_result(chunks, documents, similar)
         has_context == context_data.has_context
         quality_good == /\ StrLen(context_data.context) >= MinContextLength
                         /\ enough
         needs == needs_web_search(has_context, quality_good)
         searched == needs /\ available
         web == searched /\ web_context(outcome)
     IN qry' =
          IF fault = "ensure"
          THEN [IdleQuery EXCEPT !.pc = "raised", !.user_id = u,
                                 !.stream = stream]
          ELSE [IdleQuery EXCEPT
                  !.pc = "prompted", !.user_id = u, !.stream = stream,
                  !.has_context = has_context,
                  !.local = context_data.context,
                  !.quality = IF ~has_context THEN "none"
                              ELSE IF quality_good THEN "true" ELSE "false",
                  !.web_available = IF ~needs THEN "none"
                                    ELSE IF available THEN "true" ELSE "false",
                  !.web_search = IF searched THEN outcome ELSE "none",
                  !.prompt = create_prompt(
                               AnswerContext(context_data.context, web), web)]
  /\ UNCHANGED <<files, documents, chunks, points, run, del, ret, ens, srch, asq, unitVars>>

\* the single fragment followed by generation all the same
UnavailableThenGenerate(q) ==
  [q EXCEPT !.pc = "streaming", !.llm_available = "false", !.generate = TRUE,
            !.fragments = Append(@, "unavailable")]

\* lines 147-148: the fragment stating that the LLM is not available
Unavailable(q) ==
  [q EXCEPT !.pc = "unavailable", !.llm_available = "false",
            !.fragments = Append(@, "unavailable")]

\* lines 147-152: ollama_client.is_available(), then either the fragment of
\* line 148 or generate_response(prompt, stream)
QueryCheckLLM(available) ==
  /\ qry.pc = "prompted"
  /\ qry' = IF available
            THEN [qry EXCEPT !.pc = "streaming", !.llm_available = "true",
                             !.generate = TRUE]
            ELSE Unavailable(qry)
  /\ UNCHANGED <<files, documents, chunks, collections, points, run, del,
                 ret, ens, srch, asq, unitVars>>

\* line 149: the pull after the fragment of line 148 ends the sequence
QueryReturn ==
  /\ qry.pc = "unavailable"
  /\ qry' = [qry EXCEPT !.pc = "ended"]
  /\ UNCHANGED <<files, documents, chunks, collections, points, run, del,
                 ret, ens, srch, asq, unitVars>>

\* OllamaClient.generate_response, line 24: what requests.post leaves of the
\* connection.  A refused connection gives no response; with stream=True the
\* body stays unread on an open connection; without it the body is read in
\* full and the connection is given back before post returns
Opened(stream, line) ==
  IF line = "refused" THEN "none"
  ELSE IF stream THEN "open" ELSE "released"

\* a failure after the first fragment reaching the consumer as an exception
FailedRaised(q, failure) ==
  IF q.fragments = <<>>
  THEN [q EXCEPT !.pc = "ended", !.failure = failure,
                 !.fragments = Append(@, "error")]
  ELSE [q EXCEPT !.pc = "raised", !.failure = failure]

\* lines 39-40: the except clause around the whole body yields the error
\* text, after which the generator ends
Failed(q, failure) ==
  [q EXCEPT !.pc = "ended", !.failure = failure,
            !.fragments = Append(@, "error")]

\* lines 152-153 over generate_response, lines 23-40, one pull each.  The
\* first pull posts the request: the connection is refused, or the response
\* has an error status (line 25), or its lines are read.  A line with a
\* response is yielded, a done line (break, line 34) or the end of the lines
\* ends the sequence, a malformed line raises inside the try; without
\* streaming the one response is yielded and the sequence ends.  No path
\* closes the response: the connection is given back only when iter_lines
\* has read the body to its end
Generate(line) ==
  /\ qry.pc = "streaming"
  /\ line \in {"refused", "status"} => qry.handle = "none"
  /\ qry.stream \/ line \in {"refused", "status", "response", "error"}
  /\ line \in {"response", "last"} => Len(qry.fragments) < MaxFragments
  /\ LET opened == IF qry.handle = "none" THEN Opened(qry.stream, line)
                   ELSE qry.handle
         q == [qry EXCEPT !.handle = IF line = "eof" THEN "released"
                                     ELSE opened]
     IN qry' =
          IF line \in {"refused", "status", "error"} THEN Failed(q, line)
          ELSE [q EXCEPT
                  !.pc = IF line = "response" /\ q.stream THEN "streaming"
                         ELSE "ended",
                  !.fragments = IF line \in {"response", "last"}
                                THEN Append(@, "text") ELSE @]
  /\ UNCHANGED <<files, documents, chunks, collections, points, run, del,
                 ret, ens, srch, asq, unitVars>>

\* the consumer ceases to pull while the generator is suspended at the yield
\* of line 32: no statement of generate_response runs any more
Cancel ==
  /\ qry.pc = "streaming"
  /\ qry.handle = "open"
  /\ qry' = [qry EXCEPT !.pc = "cancelled"]
  /\ UNCHANGED <<files, documents, chunks, collections, points, run, del,
                 ret, ens, srch, asq, unitVars>>

\* line 24: response is a local of the generator.  Once the generator has
\* ended its frame is gone, and the runtime finalises the unreferenced
\* response, which closes the connection.  A suspended generator keeps it
Finalize ==
  /\ qry.pc = "ended"
  /\ qry.handle = "open"
  /\ qry' = [qry EXCEPT !.handle = "released"]
  /\ UNCHANGED <<files, documents, chunks, collections, points, run, del,
                 ret, ens, srch, asq, unitVars>>

\* ------------------------------------------------------------ chunk_text
\* DocumentProcessor.chunk_text, documents.py lines 61-92.  A text is its
\* length, the indexes of its '.', '!' and '?' and the indexes of its
\* whitespace; a chunk is the window text[start:end] it was cut from and
\* its length after strip()
CHUNK_OVERLAP == 50
BoundaryWindow == 100
MaxReturned == 5

max(a, b) == IF a >= b THEN a ELSE b
min(a, b) == IF a <= b THEN a ELSE b
Highest(S) == CHOOSE x \in S : \A y \in S : y <= x
Lowest(S) == CHOOSE x \in S : \A y \in S : x <= y

NoText == [len |-> 0, ends |-> {}, blanks |-> {}]

NoChunking ==
  [pc |-> "idle", text |-> NoText, size |-> 0, overlap |-> 0,
   start |-> 0, end |-> 0, chunks |-> <<>>]

\* text[i]: a negative index counts from the end of the text
At(text, i) == IF i < 0 THEN i + text.len ELSE i
InRange(text, i) == At(text, i) \in 0..(text.len - 1)

\* the indexes of text[a:b]: a slice clamps its bounds to the text
SliceBound(text, i) ==
  IF i < 0 THEN max(0, i + text.len) ELSE min(i, text.len)
Slice(text, a, b) == SliceBound(text, a)..(SliceBound(text, b) - 1)

\* len(text[a:b].strip()), line 83
StrippedLength(text, a, b) ==
  LET kept == Slice(text, a, b) \ text.blanks
  IN IF kept = {} THEN 0 ELSE Highest(kept) - Lowest(kept) + 1

\* lines 63-64: a falsy argument gives way to the setting
chunk_size(size) == IF size = 0 THEN CHUNK_SIZE ELSE size
chunk_overlap(overlap) == IF overlap = 0 THEN CHUNK_OVERLAP ELSE overlap

\* a search that runs forward from the window's end instead
BoundarySearchForward(text, start, end, size) ==
  LET stops == {i \in (end + 1)..(end + size) :
                  InRange(text, i) /\ At(text, i) \in text.ends}
  IN IF stops = {} THEN [raised |-> FALSE, end |-> end]
     ELSE [raised |-> FALSE, end |-> Highest(stops) + 1]

\* lines 76-81: i runs from end down to the larger of start + size // 2 and
\* end - 100, exclusive; text[i] raises IndexError outside the text, and the
\* first sentence end found moves end behind it
BoundarySearch(text, start, end, size) ==
  LET low == max(start + (size \div 2), end - BoundaryWindow)
      stops == {i \in (low + 1)..end :
                  ~InRange(text, i) \/ At(text, i) \in text.ends}
  IN IF stops = {} THEN [raised |-> FALSE, end |-> end]
     ELSE IF InRange(text, Highest(stops))
          THEN [raised |-> FALSE, end |-> Highest(stops) + 1]
          ELSE [raised |-> TRUE, end |-> end]

Chunk(text, start, end) ==
  [start |-> start, end |-> end, len |-> StrippedLength(text, start, end)]

\* lines 72-90, one iteration of the while loop
ChunkIteration(c) ==
  LET size == chunk_size(c.size)
      window == c.start + size
      found == IF window < c.text.len
               THEN BoundarySearch(c.text, c.start, window, size)
               ELSE [raised |-> FALSE, end |-> window]
      chunk == Chunk(c.text, c.start, found.end)
      kept == IF chunk.len > MinChunkLength THEN Append(c.chunks, chunk)
              ELSE c.chunks
      start == found.end - chunk_overlap(c.overlap)
  IN IF found.raised THEN [c EXCEPT !.pc = "raised"]
     ELSE IF found.end >= c.text.len
          THEN [c EXCEPT !.pc = "returned", !.end = found.end,
                         !.chunks = kept]
          ELSE [c EXCEPT !.pc = IF start < c.text.len THEN "loop"
                                ELSE "returned",
                         !.start = start, !.end = found.end, !.chunks = kept]

\* lines 63-70: a text no longer than the chunk size is returned whole
ChunkText ==
  /\ chk.pc = "called"
  /\ chk' = IF chk.text.len <= chunk_size(chk.size)
            THEN [chk EXCEPT !.pc = "returned", !.end = chk.text.len,
                             !.chunks = <<[start |-> 0, end |-> chk.text.len,
                                           len |-> chk.text.len]>>]
            ELSE [chk EXCEPT !.pc = "loop"]
  /\ UNCHANGED <<files, documents, chunks, collections, points, run, del,
                 ret, ens, queryVars, sm>>

\* lines 72-92: the loop runs on for as long as the list of chunks can grow
ChunkLoop ==
  /\ chk.pc = "loop"
  /\ Len(chk.chunks) < MaxReturned
  /\ chk' = ChunkIteration(chk)
  /\ UNCHANGED <<files, documents, chunks, collections, points, run, del,
                 ret, ens, queryVars, sm>>

\* --------------------------------------------------------- SessionManager
\* frontend/session_manager.py.  sm holds the manager's attributes and the
\* session files of its data_dir.  sessions is kept in the order of
\* updated_at, the most recently updated session last; owner is the email
\* of the user the session was created under
MaxSessions == 2
MaxMessages == 1

EmailA == <<"a", ".", "b", "@", "c">>
EmailB == <<"a", "_", "b", "@", "c">>
EmailC == <<"d", "@", "c">>
Emails == {EmailA, EmailB, EmailC}
NoEmail == <<>>

RECURSIVE ReplaceAll(_, _, _)
\* str.replace(old, new) for a one-character old and any new
ReplaceAll(s, old, new) ==
  IF s = <<>> THEN <<>>
  ELSE (IF Head(s) = old THEN new ELSE <<Head(s)>>)
         \o ReplaceAll(Tail(s), old, new)

\* line 269
safe_email(user_email) ==
  ReplaceAll(ReplaceAll(user_email, "@", <<"_", "a", "t", "_">>), ".", <<"_">>)

\* line 270: data_dir / f"sessions_{safe_email}.json"
user_sessions_file(user_email) ==
  <<"sessions_">> \o safe_email(user_email) \o <<".json">>

NoFile == <<>>
SessionFiles == {user_sessions_file(e) : e \in Emails}
NoSessions == [sessions |-> <<>>, current_session_id |-> NullId]

\* __init__, lines 81-103: no user_sessions_file, so load_sessions leaves
\* no session and no current session
NoManager ==
  [user |-> NoEmail, user_sessions_file |-> NoFile, sessions |-> <<>>,
   current_session_id |-> NullId, auto_save |-> TRUE, uuids |-> 0,
   op |-> "init",
   disk |-> [f \in SessionFiles |-> [exists |-> FALSE, data |-> NoSessions]]]

Range(f) == {f[k] : k \in DOMAIN f}
SessionIds(m) == {x.id : x \in Range(m.sessions)}
SessionOf(m, id) == CHOOSE x \in Range(m.sessions) : x.id = id
Without(sessions, id) == SelectSeq(sessions, LAMBDA x : x.id # id)

\* lines 187-206
save_sessions(m) ==
  IF m.user_sessions_file = NoFile THEN m
  ELSE [m EXCEPT !.disk[m.user_sessions_file] =
          [exists |-> TRUE,
           data |-> [sessions |-> m.sessions,
                     current_session_id |-> m.current_session_id]]]

\* if self.settings.get("auto_save", True): self.save_sessions()
AutoSave(m) == IF m.auto_save THEN save_sessions(m) ELSE m

\* lines 148-185
load_sessions(m) ==
  IF m.user_sessions_file = NoFile
       \/ ~m.disk[m.user_sessions_file].exists
  THEN [m EXCEPT !.sessions = <<>>, !.current_session_id = NullId]
  ELSE [m EXCEPT
          !.sessions = m.disk[m.user_sessions_file].data.sessions,
          !.current_session_id =
             m.disk[m.user_sessions_file].data.current_session_id]

\* lines 261-282
set_user_info(m, email) ==
  load_sessions([m EXCEPT
    !.user = email,
    !.user_sessions_file = IF email # NoEmail THEN user_sessions_file(email)
                           ELSE NoFile,
    !.sessions = <<>>, !.current_session_id = NullId])

\* lines 314-325; the id is a new uuid4
create_session(m) ==
  AutoSave([m EXCEPT
    !.uuids = @ + 1,
    !.sessions = Append(@, [id |-> m.uuids + 1, owner |-> m.user,
                            messages |-> 0]),
    !.current_session_id = m.uuids + 1])

\* lines 337-342
set_current_session(m, id) ==
  IF id \in SessionIds(m) THEN AutoSave([m EXCEPT !.current_session_id = id])
  ELSE m

\* get_all_sessions()[0], lines 344-350: the most recently updated session
MostRecent(sessions) == sessions[Len(sessions)].id

\* a deletion that leaves current_session_id as it was
delete_session_keeping_current(m, id) ==
  IF id \in SessionIds(m)
  THEN AutoSave([m EXCEPT !.sessions = Without(@, id)])
  ELSE m

\* lines 352-373
delete_session(m, id) ==
  IF id \in SessionIds(m)
  THEN LET left == Without(m.sessions, id)
       IN AutoSave([m EXCEPT
            !.sessions = left,
            !.current_session_id =
               IF m.current_session_id # id THEN @
               ELSE IF left # <<>> THEN MostRecent(left) ELSE NullId])
  ELSE m

\* lines 375-387 with ChatSession.add_message, lines 26-40
add_message_to_session(m, id) ==
  IF id \in SessionIds(m)
  THEN AutoSave([m EXCEPT
         !.sessions = Append(Without(@, id),
                             [SessionOf(m, id) EXCEPT !.messages = @ + 1])])
  ELSE m

\* lines 389-395
add_message_to_current_session(m) ==
  LET made == IF m.current_session_id = NullId THEN create_session(m) ELSE m
  IN add_message_to_session(made, made.current_session_id)

InsertAt(sessions, k, x) ==
  SubSeq(sessions, 1, k) \o <<x>> \o SubSeq(sessions, k + 1, Len(sessions))

\* lines 444-469: the session of the file under a new uuid4; its updated_at
\* is the file's, which puts it at place k among the sessions held
import_session(m, readable, k) ==
  IF ~readable THEN m
  ELSE AutoSave([m EXCEPT
         !.uuids = @ + 1,
         !.sessions = InsertAt(@, k, [id |-> m.uuids + 1, owner |-> m.user,
                                      messages |-> 0])])

\* lines 471-480
clear_all_sessions(m) ==
  AutoSave([m EXCEPT !.sessions = <<>>, !.current_session_id = NullId])

\* a call of one of the manager's methods
Called(m, name) ==
  /\ sm' = [m EXCEPT !.op = name]
  /\ UNCHANGED <<files, documents, chunks, collections, points, run, del,
                 ret, ens, queryVars, chk>>

SetUserInfo(email) == Called(set_user_info(sm, email), "set_user_info")

CreateSession ==
  /\ sm.uuids < MaxSessions
  /\ Called(create_session(sm), "create_session")

SetCurrentSession(id) ==
  Called(set_current_session(sm, id), "set_current_session")

DeleteSession(id) == Called(delete_session(sm, id), "delete_session")

AddMessageToCurrentSession ==
  /\ sm.current_session_id = NullId => sm.uuids < MaxSessions
  /\ \A x \in Range(sm.sessions) :
       x.id = sm.current_session_id => x.messages < MaxMessages
  /\ Called(add_message_to_current_session(sm),
            "add_message_to_current_session")

ImportSession(readable, k) ==
  /\ readable => sm.uuids < MaxSessions
  /\ k \in 0..Len(sm.sessions)
  /\ Called(import_session(sm, readable, k), "import_session")

ClearAllSessions == Called(clear_all_sessions(sm), "clear_all_sessions")

\* ---------------------------------------------------------- specification
\* no direct store call, no assessment and no query has been made
IdleQueries == srch = NoCall /\ asq = NoAssess /\ qry = IdleQuery

\* chunk_text has not been called and the SessionManager is as constructed
IdleUnits == chk = NoChunking /\ sm = NoManager

Init ==
  /\ files = [f \in Filenames |-> NoBytes]
  /\ documents = <<>>
  /\ chunks = {}
  /\ collections = {}
  /\ points = {}
  /\ run = [r \in Runs |-> IdleRun]
  /\ del = IdleDelete
  /\ ret = NoRetrieve
  /\ ens = [c \in Callers |-> IdleCaller]
  /\ IdleQueries
  /\ IdleUnits

\* the upload requests R, made with the user ids U
Ingest(R, U) ==
  \/ \E r \in R, f \in Filenames, u \in U, n \in 0..MaxChunks :
       Upload(r, f, u, n)
  \/ \E r \in R, f \in Filenames, n \in 0..MaxChunks : UploadFails(r, f, n)
  \/ \E r \in R, ok \in BOOLEAN : ExtractChunkEmbed(r, ok)
  \/ \E r \in R, fault \in {"none", "ensure", "upsert"} : StoreChunk(r, fault)
  \/ \E r \in R, ok \in BOOLEAN : CommitDocument(r, ok)
  \/ \E r \in R, ok \in BOOLEAN : ExceptHandler(r, ok)

Delete ==
  \/ \E d \in Runs, u \in UserIds : DeleteFind(d, u)
  \/ \E ok \in BOOLEAN : DeleteVectors(ok)
  \/ \E ok \in BOOLEAN : DeleteCommit(ok)

\* uploads and deletions, interleaved
Next == Ingest(Runs, UserIds) \/ Delete

Spec == Init /\ [][Next]_vars

\* the first upload request
QueryRuns == {r \in Runs : \A q \in Runs : r <= q}

\* one upload and deletions, interleaved
NextDelete == Ingest(QueryRuns, UserIds) \/ Delete

SpecDelete == Init /\ [][NextDelete]_vars

\* one upload in flight and queries, interleaved

NextQuery ==
  \/ Ingest(QueryRuns, QueryUserIds)
  \/ \E u \in QueryUserIds, fault \in {"none", "ensure", "search"} :
       Retrieve(u, fault)

SpecQuery == Init /\ [][NextQuery]_vars

\* concurrent direct calls of create_user_collection, on a store that is
\* empty or already holds the test user's collection with one point
StoredPoint ==
  [coll |-> collection_name(TestUser), id |-> EmbeddingId(1, 0),
   user_id |-> TestUser, document_id |-> 1, chunk_index |-> 0,
   content |-> Preview(ChunkContent([src |-> 1, n |-> 1], 0))]

InitEnsure ==
  /\ files = [f \in Filenames |-> NoBytes]
  /\ documents = <<>>
  /\ chunks = {}
  /\ \/ collections = {} /\ points = {}
     \/ collections = {collection_name(TestUser)} /\ points = {StoredPoint}
  /\ run = [r \in Runs |-> IdleRun]
  /\ del = IdleDelete
  /\ ret = NoRetrieve
  /\ ens = [c \in Callers |-> IdleCaller]
  /\ IdleQueries
  /\ IdleUnits

NextEnsure ==
  \/ \E c \in Callers, u \in QueryUserIds : GetCollection(c, u)
  \/ \E c \in Callers : CreateCollection(c)

SpecEnsure == InitEnsure /\ [][NextEnsure]_vars

\* retrieval over chunk rows and points already stored for the test user:
\* chunk k of document 1, with a content of length lens[k], is a point of
\* the test user's collection when lens[k] > 0 and a committed chunk row
\* when k is in rows as well; the Document row is there or has been deleted
MaxStored == 3

StoredLengths ==
  {MAX_CONTEXT_LENGTH \div 2 - 1, MAX_CONTEXT_LENGTH \div 2,
   MAX_CONTEXT_LENGTH - 1, MAX_CONTEXT_LENGTH + 1}

StoredContent(k, len) ==
  [src |-> 1, idx |-> k - 1, len |-> len, truncated |-> FALSE]

StoredChunkRow(k, len) ==
  DocumentChunk(1, k - 1, StoredContent(k, len), EmbeddingId(1, k - 1))

StoredChunkPoint(k, len) ==
  PointStruct(collection_name(TestUser), EmbeddingId(1, k - 1),
              [document_id |-> 1, chunk_index |-> k - 1,
               content |-> Preview(StoredContent(k, len))], TestUser)

InitStored(K, lengths) ==
  /\ files = [f \in Filenames |-> NoBytes]
  /\ \E lens \in [K -> lengths \cup {0}], rows \in SUBSET K, kept \in BOOLEAN :
       LET stored == {k \in K : lens[k] > 0}
       IN /\ points = {StoredChunkPoint(k, lens[k]) : k \in stored}
          /\ chunks = {StoredChunkRow(k, lens[k]) : k \in stored \cap rows}
          /\ collections = IF stored = {} THEN {}
                           ELSE {collection_name(TestUser)}
          /\ documents = IF kept
                         THEN [d \in {1} |->
                                 Completed(Document("a.txt", TestUuidHex),
                                           Cardinality(stored \cap rows))]
                         ELSE <<>>
  /\ run = [r \in Runs |-> IdleRun]
  /\ del = IdleDelete
  /\ ret = NoRetrieve
  /\ ens = [c \in Callers |-> IdleCaller]
  /\ IdleQueries
  /\ IdleUnits

InitContext == InitStored(1..MaxStored, StoredLengths)

NextContext ==
  \E u \in {TestUser, UserA}, fault \in {"none", "ensure", "search"} :
    Retrieve(u, fault)

SpecContext == InitContext /\ [][NextContext]_vars

\* direct calls of the VectorStore methods on a store that starts empty; the
\* second user stores one point id only
PointIds == {EmbeddingId(r, i) : r \in QueryRuns, i \in 0..(MaxChunks - 1)}
StoreDocuments == {1, 2}
StoreUserIds == {TestUser, UserA}
TopKs == {1, MaxChunks, TopK}
Thresholds == {0, 79, 100}

NextStore ==
  \/ \E id \in PointIds, d \in StoreDocuments, u \in StoreUserIds,
        fault \in {"none", "ensure", "upsert"} :
       /\ u = TestUser \/ id = EmbeddingId(1, 0)
       /\ StoreEmbedding(id, Metadata(d, id[2]), u, fault)
  \/ \E u \in StoreUserIds, top_k \in TopKs, t \in Thresholds :
       SearchSimilar(u, top_k, t, "none")
  \/ \E u \in StoreUserIds, fault \in {"ensure", "search"} :
       SearchSimilar(u, TopK, 0, fault)
  \/ \E d \in StoreDocuments, u \in StoreUserIds,
        fault \in {"none", "ensure", "delete"} :
       DeleteDocumentEmbeddings(d, u, fault)

SpecStore == Init /\ [][NextStore]_vars

\* assess_context_quality on contexts and queries made of a few words
Word(c) == <<Run(c, 1)>>
QueryVocabulary ==
  <<Word("a"), Word("A"), Word("b"), <<Run("a", 1), Run("A", 1)>>, Word("c")>>
ContextVocabulary ==
  <<Word("a"), <<Run("a", 2)>>, Word("B"), Word("d"),
    <<Run("x", MinContextLength - 2)>>>>

RECURSIVE Sentence(_, _)
\* the words of the vocabulary picked by `chosen`, one space between them
Sentence(vocabulary, chosen) ==
  IF vocabulary = <<>> THEN <<>>
  ELSE LET rest == Sentence(Tail(vocabulary),
                            {k - 1 : k \in chosen \ {1}})
       IN IF 1 \in chosen
          THEN Head(vocabulary) \o (IF rest = <<>> THEN <<>>
                                    ELSE <<Run(" ", 1)>> \o rest)
          ELSE rest

\* leading and trailing whitespace around a sentence
Padded(lead, s, trail) ==
  (IF lead > 0 THEN <<Run(" ", lead)>> ELSE <<>>) \o s
    \o (IF trail > 0 THEN <<Run(" ", trail)>> ELSE <<>>)

InitAssess ==
  /\ files = [f \in Filenames |-> NoBytes]
  /\ documents = <<>>
  /\ chunks = {}
  /\ collections = {}
  /\ points = {}
  /\ run = [r \in Runs |-> IdleRun]
  /\ del = IdleDelete
  /\ ret = NoRetrieve
  /\ ens = [c \in Callers |-> IdleCaller]
  /\ srch = NoCall
  /\ qry = IdleQuery
  /\ IdleUnits
  /\ \E cw \in SUBSET DOMAIN ContextVocabulary,
        qw \in SUBSET DOMAIN QueryVocabulary,
        lead \in {0, 1}, trail \in {0, 2} :
       asq = [context |-> Padded(lead, Sentence(ContextVocabulary, cw), trail),
              query |-> Padded(0, Sentence(QueryVocabulary, qw), trail),
              result |-> "none"]

SpecAssess == InitAssess /\ [][Assess]_vars

\* one query_documents generator consumed to its end, over a store that holds
\* nothing or one chunk of a completed document of the test user
AnswerLengths == {MinChunkLength - 1, MinChunkLength + 1}

InitAnswer == InitStored({1}, AnswerLengths)

NextAnswer ==
  \/ \E u \in {TestUser, UserA}, stream \in BOOLEAN,
        fault \in {"none", "ensure", "search"}, enough \in BOOLEAN,
        available \in BOOLEAN, outcome \in {"results", "empty", "failed"} :
       QueryPrompt(u, stream, fault, enough, available, outcome)
  \/ \E available \in BOOLEAN : QueryCheckLLM(available)
  \/ QueryReturn
  \/ \E line \in {"refused", "status", "response", "last", "done", "eof",
                   "error"} : Generate(line)
  \/ Cancel
  \/ Finalize

SpecAnswer == InitAnswer /\ [][NextAnswer]_vars

\* every pull that can be made is made, unless the consumer cancels, and the
\* runtime finalises what an ended generator leaves behind
SpecAnswerFair == SpecAnswer /\ WF_vars(NextAnswer)

\* chunk_text on its own: the texts, sizes and overlaps it is called with
MaxSentences == 2
TextLengths == {130, 260}
SentenceEnds == {11, 60, 81, 100, 101}
Sizes == {20, 60, 100, 200}
Overlaps == {0, 5, 12, 50, 150}

\* "The cat sat on the mat. The dog ran in the park."
ScenarioText ==
  [len |-> 48, ends |-> {22, 47},
   blanks |-> {3, 7, 11, 14, 18, 23, 27, 31, 35, 38, 42}]

\* texts of letters with up to MaxSentences sentence ends, each followed by
\* a blank or not
Texts ==
  {ScenarioText} \cup
  {[len |-> n, ends |-> e,
    blanks |-> IF spaced THEN {i + 1 : i \in e} ELSE {}] :
     n \in TextLengths,
     e \in {x \in SUBSET SentenceEnds : Cardinality(x) <= MaxSentences},
     spaced \in BOOLEAN}

\* nothing uploaded, nothing stored, no request in flight
IdleBackend ==
  /\ files = [f \in Filenames |-> NoBytes]
  /\ documents = <<>>
  /\ chunks = {}
  /\ collections = {}
  /\ points = {}
  /\ run = [r \in Runs |-> IdleRun]
  /\ del = IdleDelete
  /\ ret = NoRetrieve
  /\ ens = [c \in Callers |-> IdleCaller]
  /\ IdleQueries

InitChunk ==
  /\ IdleBackend
  /\ sm = NoManager
  /\ \E text \in Texts, size \in Sizes, overlap \in Overlaps :
       /\ overlap < size
       /\ chk = [NoChunking EXCEPT !.pc = "called", !.text = text,
                                   !.size = size, !.overlap = overlap]

NextChunk == ChunkText \/ ChunkLoop

SpecChunk == InitChunk /\ [][NextChunk]_vars

\* the SessionManager on its own, with auto_save as the settings file has it
InitSession ==
  /\ IdleBackend
  /\ chk = NoChunking
  /\ \E auto_save \in BOOLEAN : sm = [NoManager EXCEPT !.auto_save = auto_save]

NextSession ==
  \/ \E email \in Emails \cup {NoEmail} : SetUserInfo(email)
  \/ CreateSession
  \/ \E id \in 1..MaxSessions : SetCurrentSession(id)
  \/ \E id \in 1..MaxSessions : DeleteSession(id)
  \/ AddMessageToCurrentSession
  \/ \E readable \in BOOLEAN, k \in 0..MaxSessions : ImportSession(readable, k)
  \/ ClearAllSessions

SpecSession == InitSession /\ [][NextSession]_vars

\* ------------------------------------------------------------------ claims
PointsOfDocument(d) == {p \in points : p.document_id = d}

\* C1: once process_document has raised for a Document it created, no vector
\* point tagged with that document's id is left in the store.
C1_NoOrphanVectors ==
  \A r \in Runs :
    (run[r].pc = "raised" /\ run[r].document # NullId)
      => PointsOfDocument(run[r].document) = {}

StatusOf(r) == documents[run[r].document].processing_status

C3_QueryIsolation ==
  \A k \in DOMAIN ret.similar_chunks :
    \A p \in points :
      p.id = ret.similar_chunks[k].id => p.user_id = ret.user_id

\* the collections a Document owner's vectors are kept in
OwnerCollections(uu) ==
  {collection_name(UuidStr(uu))}
    \cup (IF uu = TestUuidHex THEN {collection_name(TestUser)} ELSE {})

\* C4: every persisted chunk row's embedding_id is the id of exactly one
\* vector point, and that point is in the collection of the owner of the
\* chunk's Document.
C4_ChunksResolve ==
  \A c \in chunks :
    LET ps == {p \in points : p.id = c.embedding_id}
    IN /\ Cardinality(ps) = 1
       /\ c.document_id \in DOMAIN documents
       /\ \A p \in ps : p.coll \in OwnerCollections(documents[c.document_id].user_id)

\* C5: every completed Document has chunk_count equal to the number of
\* persisted chunk rows whose document_id is its id.
C5_ChunkCountMatches ==
  \A d \in DOMAIN documents :
    documents[d].processing_status = "completed"
      => documents[d].chunk_count
           = Cardinality({c \in chunks : c.document_id = d})

\* a completed Document with the largest number of chunks
C5_Witness ==
  \E d \in DOMAIN documents :
    /\ documents[d].processing_status = "completed"
    /\ documents[d].chunk_count = MaxChunks
    /\ Cardinality({c \in chunks : c.document_id = d}) = MaxChunks

\* C6: when delete_user_document returns True, the Document row, every chunk
\* row it had and every vector point carrying its id are gone.
C6_DeleteCascades ==
  [][(del.pc = "vectors_deleted" /\ del'.pc = "idle" /\ del'.result = "true")
       => /\ del.document_id \notin DOMAIN documents'
          /\ \A c \in chunks :
               c.document_id = del.document_id
                 => \A c2 \in chunks' : c2.embedding_id # c.embedding_id
          /\ \A p \in points' : p.document_id # del.document_id]_vars

\* C7: every run extracts the bytes it was given, and every point indexes
\* text of the bytes given for its own document.
C7_IndexesOwnBytes ==
  /\ \A r \in Runs : run[r].pc = "storing" => run[r].text.src = r
  /\ \A p \in points : p.content.src = p.document_id

\* C8: every call of create_user_collection succeeds, and the calls for one
\* user id return the same name.
C8_EnsureAlwaysSucceeds ==
  /\ \A c \in Callers : ens[c].pc # "raised"
  /\ \A c, e \in Callers :
       (ens[c].pc = "returned" /\ ens[e].pc = "returned"
          /\ ens[c].user_id = ens[e].user_id) => ens[c].result = ens[e].result

\* C9: when a vector store call fails during retrieval, retrieve_context
\* returns the empty result instead of raising.
C9_RetrieveDegrades ==
  ret.fault # "none" => (ret.outcome = "returned" /\ ret.result = EmptyResult)

\* C10: a retrieve_context call changes neither the collections and points of
\* the vector store nor the Document and chunk rows.
C10_RetrieveReadOnly ==
  [][(\E u \in QueryUserIds, fault \in {"none", "ensure", "search"} :
        Retrieve(u, fault))
       => UNCHANGED <<collections, points, documents, chunks>>]_vars

\* the hits of a search whose chunk row is among the committed rows
HydratedHits(hits, chs) ==
  SelectSeq(hits, LAMBDA h : \E c \in chs : c.embedding_id = h.id)

\* C11: a retrieve_context call that the store serves returns has_context
\* true exactly when at least one hit has a committed chunk row, returns one
\* source per such hit, skips the other hits without failing, and returns
\* the empty result for a user id that owns no Document.
C11_RetrieveResult ==
  [][\A u \in QueryUserIds :
       Retrieve(u, "none") =>
         LET hydrated == HydratedHits(ret'.similar_chunks, chunks)
         IN /\ ret'.outcome = "returned"
            /\ ret'.result.has_context <=> Len(hydrated) > 0
            /\ Len(ret'.result.sources) = Len(hydrated)
            /\ (\A d \in DOMAIN documents :
                  documents[d].user_id # user_uuid(u))
                 => ret'.result = EmptyResult]_vars

\* the contents of the committed chunk rows of the hits, in the hits' order
HydratedContents(hits, chs) ==
  LET found == HydratedHits(hits, chs)
  IN [k \in DOMAIN found |->
        (CHOOSE c \in chs : c.embedding_id = found[k].id).content]

\* C12: the context retrieve_context returns is the contents of the hydrated
\* chunks in descending score order joined by the blank-line separator,
\* unmodified when at most MAX_CONTEXT_LENGTH characters long and otherwise
\* cut to its first MAX_CONTEXT_LENGTH characters with the ellipsis appended,
\* so it is never longer than MAX_CONTEXT_LENGTH plus the ellipsis; one
\* stored chunk of at most that length gives one source and its own content.
C12_ContextJoinedAndBounded ==
  ret.outcome = "returned" =>
    LET hits == ret.similar_chunks
        parts == HydratedContents(hits, chunks)
        joined == Join(parts)
        context == ret.result.context
    IN /\ \A j, k \in DOMAIN hits : j < k => hits[j].score >= hits[k].score
       /\ StrLen(joined) <= MAX_CONTEXT_LENGTH => context = joined
       /\ StrLen(joined) > MAX_CONTEXT_LENGTH
            => /\ context = Take(joined, MAX_CONTEXT_LENGTH) \o Ellipsis
               /\ StrLen(context) = MAX_CONTEXT_LENGTH + EllipsisLength
       /\ StrLen(context) <= MAX_CONTEXT_LENGTH + EllipsisLength
       /\ (Len(hits) = 1 /\ Len(parts) = 1
             /\ parts[1].len <= MAX_CONTEXT_LENGTH)
            => /\ Len(ret.result.sources) = 1
               /\ context = Text(parts[1])

\* two chunks were hydrated and their joined contents were cut
C12_Witness ==
  /\ ret.outcome = "returned"
  /\ Len(ret.result.sources) >= 2
  /\ ret.result.context # <<>>
  /\ ret.result.context[Len(ret.result.context)].kind = "ellipsis"
  /\ StrLen(ret.result.context) = MAX_CONTEXT_LENGTH + EllipsisLength

ResultIds(res) == {res[j].id : j \in DOMAIN res}

\* C13: search_similar returns exactly those of the top_k nearest points of
\* the user's collection whose score is at least the threshold, by
\* descending score and never more than top_k of them; the result for a
\* higher threshold is a subset of the result for a lower one, which is a
\* subset of the unthresholded top_k.
C13_ThresholdAfterTopK ==
  /\ (srch.op = "search_similar" /\ srch.fault = "none")
       => srch.result = search_similar(points, srch.user_id, srch.top_k,
                                       srch.score_threshold)
  /\ \A u \in StoreUserIds, k \in TopKs :
       LET S == {p \in points : p.coll = collection_name(u)}
           top == Search(points, collection_name(u), k)
           topIds == {top[j].id : j \in DOMAIN top}
       IN /\ Len(top) = IF Cardinality(S) < k THEN Cardinality(S) ELSE k
          /\ Cardinality(topIds) = Len(top)
          /\ \A p, q \in S :
               (p.id \in topIds /\ q.id \notin topIds) => Score(q) <= Score(p)
          /\ \A t \in Thresholds :
               LET res == search_similar(points, u, k, t)
               IN /\ Len(res) <= k
                  /\ Cardinality(ResultIds(res)) = Len(res)
                  /\ ResultIds(res)
                       = {p.id : p \in {q \in S : q.id \in topIds
                                                   /\ Score(q) >= t}}
                  /\ \A i, j \in DOMAIN res :
                       i < j => res[i].score >= res[j].score
          /\ \A t1, t2 \in Thresholds :
               t1 <= t2
                 => /\ ResultIds(search_similar(points, u, k, t2))
                         \subseteq ResultIds(search_similar(points, u, k, t1))
                    /\ ResultIds(search_similar(points, u, k, t1))
                         \subseteq topIds

\* a search returned a hit while a point that passes the threshold, but lies
\* outside the top_k, was left out
C13_Witness ==
  /\ srch.op = "search_similar" /\ srch.fault = "none"
  /\ srch.score_threshold > 0
  /\ Len(srch.result) = srch.top_k
  /\ \E p \in points :
       /\ p.coll = collection_name(srch.user_id)
       /\ Score(p) >= srch.score_threshold
       /\ p.id \notin ResultIds(srch.result)

\* C14: delete_document_embeddings removes every point of the user's
\* collection whose document_id is the given one, leaves every other point
\* of that collection and of every other collection in place, and succeeds
\* without changing the points when none matches.
C14_DeleteFrame ==
  [][\A d \in StoreDocuments, u \in StoreUserIds :
       DeleteDocumentEmbeddings(d, u, "none") =>
         LET matching == {p \in points : /\ p.coll = collection_name(u)
                                          /\ p.document_id = d}
         IN /\ srch'.outcome = "returned"
            /\ points' = points \ matching
            /\ \A p \in points \ matching : p \in points'
            /\ matching = {} => points' = points]_vars

\* a delete removed points while a point of another document stays in the
\* same collection and a point of the same document stays in another one
C14_Witness ==
  /\ srch.op = "delete_document_embeddings" /\ srch.outcome = "returned"
  /\ srch.matched > 0
  /\ \E p, q \in points :
       /\ p.coll = collection_name(srch.user_id)
       /\ q.coll # collection_name(srch.user_id)
       /\ q.document_id = srch.document_id

\* C15: a search with top_k = 1 in a collection whose only point was put
\* there by store_embedding returns one result, with that point's id and
\* with the stored metadata under the key "metadata".
C15_StoreThenSearch ==
  (srch.op = "search_similar" /\ srch.fault = "none" /\ srch.top_k = 1)
    => \A p \in points :
         ({q \in points : q.coll = collection_name(srch.user_id)} = {p})
           => /\ Len(srch.result) = 1
              /\ srch.result[1].id = p.id
              /\ "metadata" \in DOMAIN srch.result[1]
              /\ srch.result[1].metadata
                   = [document_id |-> p.document_id,
                      chunk_index |-> p.chunk_index, content |-> p.content]

\* the distinct lower-case words of the query and of the context assessed
QueryWords == Split(LowerText(asq.query))
ContextWords == Split(LowerText(asq.context))

\* max(1, ceil(0.3 * n))
RequiredWords(n) ==
  IF (3 * n + 9) \div 10 > 1 THEN (3 * n + 9) \div 10 ELSE 1

\* C16: for a context of at least 50 characters after trimming, the
\* assessment is true exactly when the query and the context share at least
\* max(1, ceil(0.3 * |Q|)) distinct lower-case words; for a shorter context
\* it is false.
C16_AssessFormula ==
  asq.result # "none" =>
    IF RunLen(Strip(asq.context)) >= MinContextLength
    THEN (asq.result = "true")
           <=> (Cardinality(QueryWords \cap ContextWords)
                  >= RequiredWords(Cardinality(QueryWords)))
    ELSE asq.result = "false"

\* a query of four distinct words, two of them in a long enough context
C16_Witness ==
  /\ asq.result = "true"
  /\ Cardinality(QueryWords) = 4
  /\ Cardinality(QueryWords \cap ContextWords) = 2

\* C17 as stated: the assessment of the empty context is false, it is false
\* when context and query share no word, and it is true whenever the context
\* contains every word of the query.
C17_AssessExamples ==
  asq.result # "none" =>
    /\ asq.context = <<>> => asq.result = "false"
    /\ QueryWords \cap ContextWords = {} => asq.result = "false"
    /\ QueryWords \subseteq ContextWords => asq.result = "true"

\* C17 as amended: the assessment of the empty context is false, it is false
\* when context and query share no word, and it is true whenever the
\* context is at least 50 characters long after trimming, the query has at
\* least one word and the context contains every word of the query.
C17_AssessExamplesLongContext ==
  asq.result # "none" =>
    /\ asq.context = <<>> => asq.result = "false"
    /\ QueryWords \cap ContextWords = {} => asq.result = "false"
    /\ (/\ RunLen(Strip(asq.context)) >= MinContextLength
        /\ QueryWords # {}
        /\ QueryWords \subseteq ContextWords) => asq.result = "true"

\* a long enough context that contains all the words of a three-word query
C17_Witness ==
  /\ asq.result = "true"
  /\ Cardinality(QueryWords) = 3
  /\ QueryWords \subseteq ContextWords

\* C18: the web search is called only when no local context was found or
\* the assessment failed, and the web client is available; when the local
\* context passes the assessment, or the web client is unavailable, the
\* search is not called and the prompt carries no web note.
C18_WebSearchGated ==
  qry.pc \notin {"idle", "raised"} =>
    /\ qry.web_search # "none"
         => /\ ~qry.has_context \/ qry.quality = "false"
            /\ qry.web_available = "true"
    /\ ((qry.has_context /\ qry.quality = "true")
          \/ qry.web_available = "false")
         => /\ qry.web_search = "none"
            /\ ~qry.prompt.web_note
            /\ ~qry.prompt.context.web

\* local context failed the assessment and the web search gave results
C18_Witness ==
  /\ qry.pc = "prompted"
  /\ qry.has_context /\ qry.quality = "false"
  /\ qry.web_search = "results"
  /\ qry.prompt.web_note

\* C19: when the web search fails or the web client is unavailable, the
\* prompt is the one built from the local context alone without the web
\* note, nothing is raised and no fragment is emitted on its account.
C19_WebFailureSilent ==
  (qry.web_search = "failed" \/ qry.web_available = "false") =>
    /\ qry.pc \notin {"idle", "raised"}
    /\ qry.prompt = create_prompt(AnswerContext(qry.local, FALSE), FALSE)
    /\ qry.prompt.context.local = qry.local
    /\ ~qry.prompt.context.web /\ ~qry.prompt.context.marker
    /\ ~qry.prompt.web_note
    /\ qry.pc = "prompted" => qry.fragments = <<>>
    /\ qry.llm_available # "true"
         => \A k \in DOMAIN qry.fragments : qry.fragments[k] # "error"

\* the web search failed and the answer is being streamed all the same
C19_Witness ==
  /\ qry.web_search = "failed"
  /\ qry.pc = "streaming"
  /\ qry.fragments = <<"text">>

\* C20: when the LLM reports itself unavailable, the sequence of fragments
\* is the one fragment stating it, generate_response is not called, and the
\* sequence then ends.
C20_UnavailableSingleFragment ==
  qry.llm_available = "false" =>
    /\ qry.fragments = <<"unavailable">>
    /\ ~qry.generate
    /\ qry.pc \in {"unavailable", "ended"}

\* the sequence has ended after the one fragment
C20_Witness ==
  /\ qry.llm_available = "false"
  /\ qry.pc = "ended"
  /\ qry.fragments = <<"unavailable">>


\* C21: a failure of the LLM request, before the first fragment or after
\* some, is never raised to the consumer of generate_response: the sequence
\* has ended, the error text is its last fragment and its only error text,
\* and with no output before the failure it is the first fragment.
C21_FailureYieldsError ==
  /\ qry.generate => qry.pc # "raised"
  /\ qry.failure # "none" =>
       /\ qry.pc = "ended"
       /\ qry.fragments # <<>>
       /\ qry.fragments[Len(qry.fragments)] = "error"
       /\ \A k \in 1..(Len(qry.fragments) - 1) : qry.fragments[k] = "text"
       /\ qry.failure \in {"refused", "status"} => qry.fragments = <<"error">>

\* a malformed line after one fragment
C21_Witness ==
  /\ qry.failure = "error"
  /\ qry.stream
  /\ qry.fragments = <<"text", "error">>
  /\ qry.pc = "ended"

\* C22: the connection opened for a streaming answer is closed in the end on
\* every exit path: after the done signal, after a failure and after the
\* consumer has ceased to pull.
C22_HandleReleased ==
  (qry.handle = "open") ~> (qry.handle = "released")


\* C23: every chunk chunk_text returns is at most size + size/2 characters
\* long, whatever the text, the size and the overlap.
C23_ChunkLengthBounded ==
  \A k \in DOMAIN chk.chunks : 2 * chk.chunks[k].len <= 3 * chk.size

\* a sentence end right at the window's end makes a chunk of size + 1
C23_Witness ==
  /\ chk.pc = "returned"
  /\ \E k \in DOMAIN chk.chunks : chk.chunks[k].len = chk.size + 1

\* C24: when more than one chunk is returned, the window of each returned
\* chunk starts exactly overlap characters before the end of the window of
\* the chunk returned before it.
C24_ConsecutiveOverlap ==
  (chk.pc = "returned" /\ Len(chk.chunks) > 1) =>
    \A k \in 1..(Len(chk.chunks) - 1) :
      chk.chunks[k + 1].start = chk.chunks[k].end - chk.overlap

\* C25: for the two-sentence text with size 20 and overlap 5 the first chunk
\* returned ends behind "mat." and every later chunk starts 5 characters
\* before the end of the one before it.
C25_ScenarioChunks ==
  (chk.pc = "returned" /\ chk.text = ScenarioText
     /\ chk.size = 20 /\ chk.overlap = 5) =>
    /\ chk.chunks # <<>>
    /\ chk.chunks[1].start = 0 /\ chk.chunks[1].end = 23
    /\ \A k \in 1..(Len(chk.chunks) - 1) :
         chk.chunks[k + 1].start = chk.chunks[k].end - 5

\* C27: with 0 <= overlap < size chunk_text terminates: the loop is never in
\* a state that its next iteration leaves as it is.
C27_LoopAdvances ==
  ~(chk.pc = "loop" /\ chk.overlap < chk.size /\ ChunkIteration(chk) = chk)


\* C26: each user has their own session file, so the sessions the manager
\* holds after switching to a user never include a session that was created
\* and saved under another user.
C26_UserIsolation ==
  \A x \in Range(sm.sessions) : x.owner = sm.user

\* C30: after any sequence of the manager's operations current_session_id
\* is None or the id of a session in sessions.
C30_CurrentSessionPresent ==
  \/ sm.current_session_id = NullId
  \/ \E x \in Range(sm.sessions) : x.id = sm.current_session_id

\* the current session was deleted while an older one was left
C30_Witness ==
  /\ sm.op = "delete_session"
  /\ sm.uuids = 2
  /\ Len(sm.sessions) = 1
  /\ sm.current_session_id = 1


\* C28: the collection process_document upserts a document's vectors into
\* is the collection retrieve_context searches for the user id the document
\* was uploaded with: the upload resolves the user id to the one the vectors
\* are stored under, and every point of the document goes to its collection.
C28_UploadedIsRetrievable ==
  [][/\ \A r \in Runs, f \in Filenames, u \in QueryUserIds, n \in 0..MaxChunks :
          Upload(r, f, u, n)
            => collection_name(run'[r].vector_user_id) = collection_name(u)
     /\ \A p \in points' \ points :
          p.document_id \in Runs
            => p.coll = collection_name(run[p.document_id].vector_user_id)]_vars

SourcePreviews == {ret.result.sources[k].preview : k \in DOMAIN ret.result.sources}

\* C29 as stated: the preview in every point's payload and in every source
\* entry is at most 200 characters long.
C29_PreviewAtMost200 ==
  /\ \A p \in points : p.content.len <= PreviewLength
  /\ \A v \in SourcePreviews : v.len <= PreviewLength

\* C29: the preview in every point's payload and in every source entry is
\* the chunk itself when that is at most 200 characters long, and otherwise
\* 203 characters: the first 200 of the chunk and the three of "...".
C29_PreviewBounded ==
  \A v \in {p.content : p \in points} \cup SourcePreviews :
    /\ v.len <= PreviewLength + EllipsisLength
    /\ v.truncated => v.len = PreviewLength + EllipsisLength
    /\ ~v.truncated => v.len <= PreviewLength

\* a retrieval that returned the source of a chunk longer than 200
\* characters, whose point carries the cut preview as well
C29_Witness ==
  /\ \E v \in SourcePreviews : v.truncated /\ v.len = PreviewLength + EllipsisLength
  /\ \E p \in points : p.content.truncated
  /\ \E p \in points : ~p.content.truncated

====
